---- MODULE Spec2Model ----
(***************************************************************************)
(* cdn-source-loader: the CdnResource load controller (start / stop /      *)
(* resume over a caller-owned resumeConfig), the ConcurrencyQueue it       *)
(* schedules on, and loadResource's retry loop.                            *)
(*                                                                         *)
(* Execution model: one JavaScript event loop.  An action is either an     *)
(* event (a public call, a network response, a timer, the promise of an    *)
(* awaited callback settling) or the continuation of an await whose        *)
(* promise is already settled (a microtask).  Events fire only when no     *)
(* continuation is pending (Quiescent).                                    *)
(***************************************************************************)
EXTENDS Integers, Sequences, FiniteSets, TLC

\* ------------------------------------------------------------------ bounds
NumFiles == 2
MaxRuns == 2
MaxRetry == 1
MaxConcurrency == 2
\* a ConcurrencyQueue and loadResource used directly by a caller
NumQueueTasks == 4
MaxQueueLimit == 3
MaxLoadRetry == 2
BodySize == 3
MaxChunk == 2

\* ------------------------------------------------------- program constants
DefaultConcurrency == 5
DefaultRetryCount == 3

Files == 1..NumFiles
Runs == 1..MaxRuns
QueueTasks == 1..NumQueueTasks

IDLE == "idle"
RUNNING == "running"
STOPPED == "stopped"
COMPLETED == "completed"
LoadState == {IDLE, RUNNING, STOPPED, COMPLETED}

\* resumeConfig[path]: undefined, false (succeeded, skip) or true (fetch again)
ABSENT == "absent"
DONE == "done"
PENDING == "pending"

NoCall == [op |-> "none", res |-> "none"]

NoProgress == [completed |-> -1, total |-> -1, percentage |-> -1,
               success |-> -1, failure |-> -1]

VARIABLES
  options,          \* CdnLoadOptions, fixed at construction
  resumeConfig,     \* options.resumeConfig: [Files -> {ABSENT, DONE, PENDING}]
  state,            \* this.state
  isRunning,        \* this.isRunning
  currentProgress,  \* this.currentProgress (NoProgress = null)
  aborted,          \* runs whose AbortController has been aborted
  extAborted,       \* options.signal.aborted
  pc,               \* where the active executeLoad() is: none / fetchMeta / awaitAll
  curRun,           \* number of executeLoad() bodies entered; the last one's id
  run,              \* per run: closure variables of executeLoad and its outcome
  task,             \* per run and file: the queue.add() task of that file
  queue,            \* per run: ConcurrencyQueue.queue (file ids, FIFO)
  running,          \* per run: ConcurrencyQueue.running
  lastCall,         \* the public call made by the step just taken, and how it returned
  lastOnState,      \* the stateInfo of the most recent onState notification
  cq,               \* a ConcurrencyQueue a caller uses directly: [n, q]
  ld                \* loadResource calls a caller makes directly: [retryCount, aborted, t]

ctlVars == <<options, resumeConfig, state, isRunning, currentProgress, aborted,
             extAborted, pc, curRun, run, lastCall, lastOnState>>
qVars == <<task, queue, running>>
vars == <<ctlVars, qVars, cq, ld>>

\* ------------------------------------------------------------ small helpers
\* Math.round(x / y * 100) for x >= 0, y > 0
RoundPercent(x, y) == (200 * x + y) \div (2 * y)

MutSelectAll(s, keep) == s
RECURSIVE SelectSeq2(_, _)
\* Array.prototype.filter over the manifest's ordered file list
SelectSeq2(s, keep) ==
  IF s = <<>> THEN <<>>
  ELSE IF Head(s) \in keep THEN <<Head(s)>> \o SelectSeq2(Tail(s), keep)
       ELSE SelectSeq2(Tail(s), keep)

Range(s) == {s[i] : i \in 1..Len(s)}

\* metadata.files, in manifest order
ManifestFiles == [i \in 1..NumFiles |-> i]

\* ------------------------------------------------------------- task records
\* pc of a task:
\*   none       not submitted            queued   pushed, not yet admitted
\*   opaque     a caller's task body running (SpecQueue)
\*   fetching   await fetch(...)         retryWait  await setTimeout(retryDelay)
\*   onSuccess / onEnd / onError  awaiting the promise of that callback
\*   retOk / retFail  loadResource returned, the caller's continuation is pending
\*   bodyOk     the task body returned, the queue wrapper's continuation is pending
\*   thrown     the task body threw ("Request aborted"), wrapper continuation pending
\*   resolved / rejected  the add() promise is settled and the slot released
NoTask == [pc |-> "none", tries |-> 0, retryCount |-> 0,
           nSuccess |-> 0, nEnd |-> 0, nError |-> 0]
QueuedTask == [NoTask EXCEPT !.pc = "queued"]

\* -------------------------------------------------------------- loadResource
\* the catch block; attempt = t.tries - 1
MutLoopTopNoCheck(t, ab) == [t EXCEPT !.pc = "fetching", !.tries = @ + 1]
\* top of the for loop: the abort check, then fetch(resourceUrl, {signal})
LoopTop(t, ab) ==
  IF ab THEN [t EXCEPT !.pc = "thrown"]
  ELSE [t EXCEPT !.pc = "fetching", !.tries = @ + 1]

\* loadResource(fileInfo, baseUrl, retryCount, retryDelay, callbacks, signal),
\* up to its first await
LoadResourceCall(rc, ab) == LoopTop([NoTask EXCEPT !.retryCount = rc], ab)

\* response.ok: callbacks.onSuccess is called and awaited
AfterFetchOk(t) == [t EXCEPT !.pc = "onSuccess", !.nSuccess = @ + 1]

MutCatchIgnoresAbort(t, ab) ==
  IF t.tries - 1 < t.retryCount THEN [t EXCEPT !.pc = "retryWait"]
  ELSE [t EXCEPT !.pc = "onError", !.nError = @ + 1]

MutCatchErrorEachAttempt(t, ab) ==
  IF ab THEN [t EXCEPT !.pc = "thrown"]
  ELSE IF t.tries - 1 < t.retryCount
       THEN [t EXCEPT !.pc = "retryWait", !.nError = @ + 1]
  ELSE [t EXCEPT !.pc = "onError", !.nError = @ + 1]

AfterFetchError(t, ab) ==
  IF ab THEN [t EXCEPT !.pc = "thrown"]
  ELSE IF t.tries - 1 < t.retryCount THEN [t EXCEPT !.pc = "retryWait"]
  ELSE [t EXCEPT !.pc = "onError", !.nError = @ + 1]

\* onSuccess settled: callbacks.onEnd is called and awaited
AfterOnSuccess(t) == [t EXCEPT !.pc = "onEnd", !.nEnd = @ + 1]
\* onEnd settled: return {success: true}
AfterOnEnd(t) == [t EXCEPT !.pc = "retOk"]
MutThrowAfterOnError(t) == [t EXCEPT !.pc = "thrown"]
\* onError settled: return {success: false}
AfterOnError(t) == [t EXCEPT !.pc = "retFail"]

\* --------------------------------------------------------- ConcurrencyQueue
\* A queue value q is [running, queue, task]; body[f] is the state a task is in
\* once its body has run up to its first await.
RECURSIVE MutProcessQueueOffByOne(_, _, _)
MutProcessQueueOffByOne(maxConcurrency, q, body) ==
  IF q.running <= maxConcurrency /\ Len(q.queue) > 0
  THEN LET f == Head(q.queue) IN
       MutProcessQueueOffByOne(maxConcurrency,
                    [running |-> q.running + 1,
                     queue |-> Tail(q.queue),
                     task |-> [q.task EXCEPT ![f] = body[f]]],
                    body)
  ELSE q

RECURSIVE MutProcessQueueLifo(_, _, _)
MutProcessQueueLifo(maxConcurrency, q, body) ==
  IF q.running < maxConcurrency /\ Len(q.queue) > 0
  THEN LET f == q.queue[Len(q.queue)] IN
       MutProcessQueueLifo(maxConcurrency,
                    [running |-> q.running + 1,
                     queue |-> SubSeq(q.queue, 1, Len(q.queue) - 1),
                     task |-> [q.task EXCEPT ![f] = body[f]]],
                    body)
  ELSE q

RECURSIVE MutProcessQueueStrict(_, _, _)
MutProcessQueueStrict(maxConcurrency, q, body) ==
  IF q.running + 1 < maxConcurrency /\ Len(q.queue) > 0
  THEN LET f == Head(q.queue) IN
       MutProcessQueueStrict(maxConcurrency,
                    [running |-> q.running + 1,
                     queue |-> Tail(q.queue),
                     task |-> [q.task EXCEPT ![f] = body[f]]],
                    body)
  ELSE q

RECURSIVE processQueue(_, _, _)
\* while (this.running < this.maxConcurrency && this.queue.length > 0)
processQueue(maxConcurrency, q, body) ==
  IF q.running < maxConcurrency /\ Len(q.queue) > 0
  THEN LET f == Head(q.queue) IN
       processQueue(maxConcurrency,
                    [running |-> q.running + 1,
                     queue |-> Tail(q.queue),
                     task |-> [q.task EXCEPT ![f] = body[f]]],
                    body)
  ELSE q

\* add(task): push the wrapper, then processQueue()
QueueAdd(maxConcurrency, q, f, body) ==
  processQueue(maxConcurrency,
               [q EXCEPT !.queue = Append(@, f), !.task[f] = QueuedTask],
               body)

MutWrapperLeakOnReject(maxConcurrency, q, f, body) ==
  LET outcome == IF q.task[f].pc = "bodyOk" THEN "resolved" ELSE "rejected" IN
  processQueue(maxConcurrency,
               [q EXCEPT !.running = IF outcome = "resolved" THEN @ - 1 ELSE @,
                         !.task[f] = [NoTask EXCEPT !.pc = outcome]],
               body)

MutWrapperNoProcess(maxConcurrency, q, f, body) ==
  LET outcome == IF q.task[f].pc = "bodyOk" THEN "resolved" ELSE "rejected" IN
  [q EXCEPT !.running = @ - 1, !.task[f] = [NoTask EXCEPT !.pc = outcome]]

\* the wrapper after `await task()`: resolve / reject, then finally
\* { this.running--; this.processQueue() }
\* (the locals of the finished task body are dropped with it)
WrapperSettle(maxConcurrency, q, f, body) ==
  LET outcome == IF q.task[f].pc = "bodyOk" THEN "resolved" ELSE "rejected" IN
  processQueue(maxConcurrency,
               [q EXCEPT !.running = @ - 1,
                         !.task[f] = [NoTask EXCEPT !.pc = outcome]],
               body)

\* new ConcurrencyQueue(maxConcurrency), for tasks named by the elements of D
NewQueue(D) == [running |-> 0, queue |-> <<>>, task |-> [f \in D |-> NoTask]]

\* ------------------------------------------------------------- CdnResource
\* const signal = this.options.signal || this.abortController.signal
SignalAborted(g) == IF options.signal THEN extAborted ELSE g \in aborted

\* this.options.retryCount || 3
RetryCountArg == IF options.retryCount = 0 THEN DefaultRetryCount ELSE options.retryCount

\* this.options.concurrency || 5
ConcurrencyArg == IF options.concurrency = 0 THEN DefaultConcurrency ELSE options.concurrency

MutCanStartAlways == TRUE
canStart == state = IDLE \/ state = COMPLETED \/ state = STOPPED

MutCanResumeWhenStopped == state = STOPPED
canResume == state = STOPPED /\ \E f \in Files : resumeConfig[f] = DONE

NoRun == [completed |-> 0, success |-> 0, failure |-> 0, total |-> 0,
          base |-> "none", files |-> <<>>, backlog |-> <<>>, doneBefore |-> {},
          kind |-> "none", from |-> "none", result |-> "none", ended |-> 0,
          endState |-> "none", seen |-> "none", stopSettled |-> {},
          emptyBefore |-> FALSE, succeeded |-> {}, failed |-> {}]

Progress(completed, total, success, failure) ==
  [completed |-> completed, total |-> total,
   percentage |-> IF total > 0 THEN RoundPercent(completed, total) ELSE 0,
   success |-> success, failure |-> failure]

\* the async task handed to queue.add(), up to its first await
TaskBody(g) ==
  [f \in Files |->
     IF SignalAborted(g) THEN [NoTask EXCEPT !.pc = "thrown"]
     ELSE LoadResourceCall(RetryCountArg, SignalAborted(g))]

MutAddFirstOnly(maxConcurrency, q, files, body) ==
  IF files = <<>> THEN q
  ELSE QueueAdd(maxConcurrency, q, Head(files), body)

RECURSIVE AddAll(_, _, _, _)
\* filesToLoadFiltered.map((fileInfo) => queue.add(...))
AddAll(maxConcurrency, q, files, body) ==
  IF files = <<>> THEN q
  ELSE AddAll(maxConcurrency, QueueAdd(maxConcurrency, q, Head(files), body),
              Tail(files), body)

MutBasePrefixFirst ==
  IF options.baseUrl THEN "baseUrl"
  ELSE IF options.prefix THEN "prefix"
  ELSE IF options.metaUrl THEN "metaUrl"
  ELSE "none"

\* base URL: options.baseUrl, else extractBaseUrl(options.metaUrl), else
\* metadata.prefix, else an Error
ResolvedBaseUrl ==
  IF options.baseUrl THEN "baseUrl"
  ELSE IF options.metaUrl THEN "metaUrl"
  ELSE IF options.prefix THEN "prefix"
  ELSE "none"

\* the outer catch / finally of executeLoad for an error thrown in run g
OuterCatch(g, r) ==
  IF g \in aborted
  THEN [r EXCEPT !.ended = @ + 1, !.result = "resolved", !.endState = "error"]
  ELSE [r EXCEPT !.result = "rejected", !.endState = "error"]

MutPartitionAll(files, cfg) == files
\* the files of the filtered list that are not marked done (value false)
Partition(files, cfg) == SelectSeq2(files, {f \in Files : cfg[f] # DONE})

MutClearOnStart == [f \in Files |-> ABSENT]
\* start() no longer clears resumeConfig before executeLoad()
ConfigAfterStart == resumeConfig

\* executeLoad from the metadata on (after `await fetchMetadata`, or at once
\* when options.metaData is given).  st, los, rin and cfg are this.state, the
\* last onState notification, the run's record and options.resumeConfig when
\* this code starts.
Prepare(g, st, los, rin, cfg) ==
  LET filesToLoad == SelectSeq2(ManifestFiles, options.fileFilter)
      filesToLoadFiltered == Partition(filesToLoad, cfg)
      totalFiles == Len(filesToLoad)
      remainingFiles == Len(filesToLoadFiltered)
      completedCount == Len(SelectSeq2(filesToLoad, {f \in Files : cfg[f] = DONE}))
      r0 == [rin EXCEPT !.completed = completedCount, !.success = completedCount,
                           !.failure = 0, !.total = totalFiles,
                           !.base = ResolvedBaseUrl, !.files = filesToLoad,
                           !.backlog = filesToLoadFiltered,
                           !.doneBefore = {f \in Files : cfg[f] = DONE},
                           !.emptyBefore = \A f \in Files : cfg[f] = ABSENT]
      q == AddAll(ConcurrencyArg, NewQueue(Files), filesToLoadFiltered, TaskBody(g))
  IN
  /\ resumeConfig' = cfg
  /\ IF ResolvedBaseUrl = "none"
     THEN /\ run' = [run EXCEPT ![g] = OuterCatch(g, [rin EXCEPT !.base = "none"])]
          /\ isRunning' = FALSE
          /\ state' = st
          /\ lastOnState' = los
          /\ pc' = "none"
          /\ UNCHANGED <<currentProgress, task, queue, running>>
     ELSE /\ currentProgress' =
               IF completedCount > 0
               THEN Progress(completedCount, totalFiles, completedCount, 0)
               ELSE currentProgress
          /\ IF remainingFiles = 0
             THEN /\ isRunning' = FALSE
                  /\ state' = COMPLETED
                  /\ lastOnState' = [state |-> COMPLETED, isRunning |-> FALSE]
                  /\ run' = [run EXCEPT ![g] = [r0 EXCEPT !.ended = @ + 1,
                                                          !.result = "resolved",
                                                          !.endState = COMPLETED]]
                  /\ pc' = "none"
                  /\ UNCHANGED <<task, queue, running>>
             ELSE /\ isRunning' = TRUE
                  /\ state' = st
                  /\ lastOnState' = IF completedCount > 0
                                    THEN [state |-> st, isRunning |-> TRUE]
                                    ELSE los
                  /\ run' = [run EXCEPT ![g] = r0]
                  /\ pc' = "awaitAll"
                  /\ task' = [task EXCEPT ![g] = q.task]
                  /\ queue' = [queue EXCEPT ![g] = q.queue]
                  /\ running' = [running EXCEPT ![g] = q.running]

\* executeLoad(), entered from start() or resume() with this.state = st and
\* options.resumeConfig = cfg
executeLoad(st, op, cfg) ==
  IF isRunning
  THEN /\ state' = st
       /\ resumeConfig' = cfg
       /\ lastCall' = [op |-> op, res |-> "returned"]
       /\ UNCHANGED <<options, isRunning, currentProgress, aborted,
                      extAborted, pc, curRun, run, lastOnState, qVars, cq, ld>>
  ELSE /\ curRun < MaxRuns
       /\ curRun' = curRun + 1
       /\ lastCall' = [op |-> op, res |-> "run"]
       /\ UNCHANGED <<options, aborted, extAborted, cq, ld>>
       /\ LET g == curRun + 1
              los == [state |-> RUNNING, isRunning |-> TRUE]
          IN IF options.metaData
             THEN Prepare(g, RUNNING, los,
                          [run[g] EXCEPT !.kind = op, !.from = state,
                                         !.result = "pending"],
                          cfg)
             ELSE /\ run' = [run EXCEPT ![g] = [@ EXCEPT !.kind = op, !.from = state,
                                                        !.result = "pending"]]
                  /\ resumeConfig' = cfg
                  /\ isRunning' = TRUE
                  /\ state' = RUNNING
                  /\ lastOnState' = los
                  /\ pc' = "fetchMeta"
                  /\ UNCHANGED <<currentProgress, qVars>>

\* ------------------------------------------------------------ the event loop
AnyRejected(g) == \E f \in Files : task[g][f].pc = "rejected"
AllResolved(g) == \A f \in Range(run[g].backlog) : task[g][f].pc = "resolved"

MutFinishWhenAllResolved == pc = "awaitAll" /\ AllResolved(curRun)
\* `await Promise.all(loadTasks)` has settled
FinishEnabled == pc = "awaitAll" /\ (AnyRejected(curRun) \/ AllResolved(curRun))

\* a continuation (microtask) is pending: a settled await has not resumed yet
MicroPending(g, f) ==
  \/ task[g][f].pc \in {"retOk", "retFail", "bodyOk", "thrown"}
  \/ task[g][f].pc = "fetching" /\ SignalAborted(g)

Quiescent == ~FinishEnabled /\ \A g \in Runs, f \in Files : ~MicroPending(g, f)

\* --------------------------------------------------------- public operations
\* start()
Start ==
  /\ Quiescent
  /\ IF ~canStart
     THEN /\ lastCall' = [op |-> "start", res |-> "rejected"]
          /\ UNCHANGED <<options, resumeConfig, state, isRunning, currentProgress,
                      aborted, extAborted, pc, curRun, run, lastOnState, qVars, cq, ld>>
     ELSE executeLoad(IF state = COMPLETED \/ state = STOPPED THEN IDLE ELSE state,
                      "start", ConfigAfterStart)

\* resume()
Resume ==
  /\ Quiescent
  /\ IF ~canResume
     THEN /\ lastCall' = [op |-> "resume", res |-> "rejected"]
          /\ UNCHANGED <<options, resumeConfig, state, isRunning, currentProgress,
                      aborted, extAborted, pc, curRun, run, lastOnState, qVars, cq, ld>>
     ELSE executeLoad(state, "resume", resumeConfig)

\* the resources of run g whose task body has returned a result
SettledTasks(g) == {f \in Files : task[g][f].pc \in {"bodyOk", "resolved"}}

MutStopUnguarded ==
  /\ Quiescent
  /\ lastCall' = [op |-> "stop", res |-> IF state = RUNNING THEN "stopped" ELSE "returned"]
  /\ state' = STOPPED
  /\ aborted' = aborted \cup {curRun}
  /\ UNCHANGED <<options, resumeConfig, isRunning, currentProgress, extAborted,
                 pc, curRun, run, lastOnState, qVars, cq, ld>>

\* stop(); run[g].stopSettled remembers which resources had settled when the
\* call was accepted
Stop ==
  /\ Quiescent
  /\ lastCall' = [op |-> "stop", res |-> IF state = RUNNING THEN "stopped" ELSE "returned"]
  /\ IF state # RUNNING
     THEN UNCHANGED <<state, aborted, run>>
     ELSE /\ state' = STOPPED
          /\ aborted' = aborted \cup {curRun}
          /\ run' = [run EXCEPT ![curRun].stopSettled = SettledTasks(curRun)]
  /\ UNCHANGED <<options, resumeConfig, isRunning, currentProgress, extAborted,
                 pc, curRun, lastOnState, qVars, cq, ld>>

\* the caller aborts the AbortSignal it passed as options.signal
AbortExternal ==
  /\ Quiescent
  /\ options.signal /\ ~extAborted
  /\ extAborted' = TRUE
  /\ lastCall' = NoCall
  /\ UNCHANGED <<options, resumeConfig, state, isRunning, currentProgress, aborted,
                 pc, curRun, run, lastOnState, qVars, cq, ld>>

\* ------------------------------------------------ continuations of executeLoad
\* fetchMetadata(metaUrl) resolved
MetaOk ==
  /\ Quiescent
  /\ pc = "fetchMeta"
  /\ Prepare(curRun, state, lastOnState, run[curRun], resumeConfig)
  /\ lastCall' = NoCall
  /\ UNCHANGED <<options, aborted, extAborted, curRun, cq, ld>>

\* fetchMetadata(metaUrl) rejected: the outer catch and finally
MetaFail ==
  /\ Quiescent
  /\ pc = "fetchMeta"
  /\ run' = [run EXCEPT ![curRun] = OuterCatch(curRun, @)]
  /\ isRunning' = FALSE
  /\ pc' = "none"
  /\ lastCall' = NoCall
  /\ UNCHANGED <<options, resumeConfig, state, currentProgress, aborted, extAborted,
                 curRun, lastOnState, qVars, cq, ld>>

\* the code after `await Promise.all(loadTasks)`: its catch, or completion
FinishRun ==
  /\ FinishEnabled
  /\ pc' = "none"
  /\ isRunning' = FALSE
  /\ LET g == curRun IN
     IF AnyRejected(g) /\ ~SignalAborted(g)
     THEN /\ run' = [run EXCEPT ![g] = OuterCatch(g, @)]
          /\ UNCHANGED <<state, lastOnState>>
     ELSE /\ state' = IF AnyRejected(g) THEN STOPPED ELSE COMPLETED
          /\ lastOnState' = [state |-> state', isRunning |-> FALSE]
          /\ run' = [run EXCEPT ![g] = [@ EXCEPT !.ended = @ + 1, !.result = "resolved",
                                                 !.endState = state']]
  /\ lastCall' = NoCall
  /\ UNCHANGED <<options, resumeConfig, currentProgress, aborted, extAborted,
                 curRun, qVars, cq, ld>>

\* what an action that is not a public call leaves alone; lastCall tells how
\* the public call made by the step just taken returned
ctlFrame == <<options, resumeConfig, state, isRunning, currentProgress, aborted,
              extAborted, pc, curRun, run, lastOnState, cq, ld>>

SetTask(g, f, t) ==
  /\ task' = [task EXCEPT ![g][f] = t]
  /\ UNCHANGED <<queue, running>>

\* ---------------------------------------------------- steps of loadResource
\* fetch resolved with response.ok
FetchOk(g, f) ==
  /\ Quiescent
  /\ task[g][f].pc = "fetching"
  /\ SetTask(g, f, AfterFetchOk(task[g][f]))
  /\ lastCall' = NoCall
  /\ UNCHANGED ctlFrame

\* fetch rejected, or resolved with !response.ok; an aborted signal rejects it
FetchError(g, f) ==
  /\ task[g][f].pc = "fetching"
  /\ Quiescent \/ SignalAborted(g)
  /\ SetTask(g, f, AfterFetchError(task[g][f], SignalAborted(g)))
  /\ lastCall' = NoCall
  /\ UNCHANGED ctlFrame

\* the retryDelay timer fired: attempt++ and the top of the loop
RetryTimer(g, f) ==
  /\ Quiescent
  /\ task[g][f].pc = "retryWait"
  /\ SetTask(g, f, LoopTop(task[g][f], SignalAborted(g)))
  /\ lastCall' = NoCall
  /\ UNCHANGED ctlFrame

\* the promise of callbacks.onSuccess / onEnd / onError settled (in the runs of
\* a controller the handlers resolve; LdCallbackFail explores handlers that
\* reject, where loadResource is called directly)
CallbackDone(g, f) ==
  /\ Quiescent
  /\ task[g][f].pc \in {"onSuccess", "onEnd", "onError"}
  /\ SetTask(g, f, CASE task[g][f].pc = "onSuccess" -> AfterOnSuccess(task[g][f])
                     [] task[g][f].pc = "onEnd" -> AfterOnEnd(task[g][f])
                     [] OTHER -> AfterOnError(task[g][f]))
  /\ lastCall' = NoCall
  /\ UNCHANGED ctlFrame

\* ------------------------------------------- the task of executeLoad, resumed
MutDropFailureCount(r, success) ==
  [r EXCEPT !.completed = @ + 1,
            !.success = IF success THEN @ + 1 ELSE @]

\* updateTaskProgress(success): the closure counters of run g
updateTaskProgress(r, success) ==
  [r EXCEPT !.completed = @ + 1,
            !.success = IF success THEN @ + 1 ELSE @,
            !.failure = IF success THEN @ ELSE @ + 1]

\* this.options.resumeConfig[fileInfo.path] = !result.success
WriteBack(cfg, f, success) == [cfg EXCEPT ![f] = IF success THEN DONE ELSE PENDING]

MutSnapshotBeforeWrite(before, after) == before
\* the checkpoint a handler of the snapshot reads: updateTaskProgress is called
\* after the write-back statement
CheckpointAtSnapshot(before, after) == after

\* after `await loadResource(...)`: write resumeConfig[path] = !result.success,
\* updateTaskProgress(result.success) with its notifications, return result;
\* run[g].seen is the entry of f that the handlers of the snapshot read, and
\* run[g].succeeded / failed collect the resources by the result returned
BodyContinue(g, f) ==
  /\ task[g][f].pc \in {"retOk", "retFail"}
  /\ LET success == task[g][f].pc = "retOk"
         written == WriteBack(resumeConfig, f, success)
         r == [updateTaskProgress(run[g], success) EXCEPT
                 !.seen = CheckpointAtSnapshot(resumeConfig, written)[f],
                 !.succeeded = IF success THEN @ \cup {f} ELSE @,
                 !.failed = IF success THEN @ ELSE @ \cup {f}]
     IN /\ resumeConfig' = written
        /\ run' = [run EXCEPT ![g] = r]
        /\ currentProgress' = Progress(r.completed, r.total, r.success, r.failure)
        /\ lastOnState' = [state |-> state, isRunning |-> isRunning]
  /\ SetTask(g, f, [task[g][f] EXCEPT !.pc = "bodyOk"])
  /\ lastCall' = NoCall
  /\ UNCHANGED <<options, state, isRunning, aborted, extAborted, pc, curRun, cq, ld>>

\* the queue wrapper of task (g, f) resumed after `await task()`
SettleWrapper(g, f) ==
  /\ task[g][f].pc \in {"bodyOk", "thrown"}
  /\ LET q == WrapperSettle(ConcurrencyArg,
                            [running |-> running[g], queue |-> queue[g],
                             task |-> task[g]],
                            f, TaskBody(g))
     IN /\ task' = [task EXCEPT ![g] = q.task]
        /\ queue' = [queue EXCEPT ![g] = q.queue]
        /\ running' = [running EXCEPT ![g] = q.running]
  /\ lastCall' = NoCall
  /\ UNCHANGED ctlFrame

\* ------------------------------------------------------------- construction
\* The options a controller is constructed with: a baseline (metaUrl, no
\* baseUrl, no filter, concurrency 1, retryCount 1, no caller signal) and the
\* baseline with one option changed at a time.
Baseline ==
  [metaUrl |-> TRUE, metaData |-> FALSE, baseUrl |-> FALSE, prefix |-> TRUE,
   fileFilter |-> Files, concurrency |-> 1, retryCount |-> 1, signal |-> FALSE]

OptionSpace ==
  {[Baseline EXCEPT !.concurrency = c] : c \in 0..MaxConcurrency}
  \cup {[Baseline EXCEPT !.retryCount = rc] : rc \in 0..MaxRetry}
  \cup {[Baseline EXCEPT !.signal = TRUE],
        [Baseline EXCEPT !.fileFilter = Files \ {NumFiles}],
        [Baseline EXCEPT !.baseUrl = TRUE],
        [Baseline EXCEPT !.metaData = TRUE],
        [Baseline EXCEPT !.metaUrl = FALSE, !.metaData = TRUE],
        [Baseline EXCEPT !.metaUrl = FALSE, !.metaData = TRUE, !.baseUrl = TRUE],
        [Baseline EXCEPT !.metaUrl = FALSE, !.metaData = TRUE, !.prefix = FALSE],
        [Baseline EXCEPT !.metaUrl = FALSE, !.metaData = TRUE, !.signal = TRUE,
                         !.concurrency = MaxConcurrency]}

\* the resumeConfig objects a caller constructs the controller with
InitialConfigs ==
  {cfg \in [Files -> {ABSENT, DONE, PENDING}] :
     \/ \A f \in Files : f > 1 => cfg[f] = ABSENT
     \/ \A f \in Files : cfg[f] = DONE}

MutInitialStateIdle(cfg) == IDLE
\* hasCompletedFiles ? STOPPED : IDLE
InitialState(cfg) == IF \E f \in Files : cfg[f] = DONE THEN STOPPED ELSE IDLE

\* the onState notifications the constructor sends, in order
ConstructorOnState(cfg) ==
  <<[state |-> InitialState(cfg), isRunning |-> FALSE,
     completedCount |-> Cardinality({f \in Files : cfg[f] = DONE}),
     totalCount |-> 0]>>

\* new CdnResource(options) with options.resumeConfig = cfg
Construct(opts, cfg) ==
  /\ options = opts
  /\ resumeConfig = cfg
  /\ state = InitialState(cfg)
  /\ isRunning = FALSE
  /\ currentProgress = NoProgress
  /\ aborted = {}
  /\ extAborted = FALSE
  /\ pc = "none"
  /\ curRun = 0
  /\ run = [g \in Runs |-> NoRun]
  /\ task = [g \in Runs |-> [f \in Files |-> NoTask]]
  /\ queue = [g \in Runs |-> <<>>]
  /\ running = [g \in Runs |-> 0]
  /\ lastCall = [op |-> "new", res |-> "returned"]
  /\ LET last == ConstructorOnState(cfg)[Len(ConstructorOnState(cfg))] IN
     lastOnState = [state |-> last.state, isRunning |-> last.isRunning]

NoQueue == [n |-> 1, q |-> NewQueue(QueueTasks), order |-> <<>>, started |-> <<>>]
\* a call of the streaming loadResource before it starts: tries attempts made,
\* loaded the local byte counter of the current attempt, progress the argument
\* of the last onProgress notification and nProgress their number
NoStream == [pc |-> "none", tries |-> 0, loaded |-> 0, nProgress |-> 0,
             progress |-> [loaded |-> 0, total |-> 0, percentage |-> 0],
             nSuccess |-> 0, nEnd |-> 0, nError |-> 0]

NoLoads == [retryCount |-> 0, aborted |-> FALSE, t |-> [f \in Files |-> NoTask],
            s |-> NoStream]

Init ==
  /\ \E opts \in OptionSpace, cfg \in InitialConfigs : Construct(opts, cfg)
  /\ cq = NoQueue
  /\ ld = NoLoads

Next ==
  \/ Start
  \/ Resume
  \/ Stop
  \/ AbortExternal
  \/ MetaOk
  \/ MetaFail
  \/ FinishRun
  \/ \E g \in Runs, f \in Files : FetchOk(g, f)
  \/ \E g \in Runs, f \in Files : FetchError(g, f)
  \/ \E g \in Runs, f \in Files : RetryTimer(g, f)
  \/ \E g \in Runs, f \in Files : CallbackDone(g, f)
  \/ \E g \in Runs, f \in Files : BodyContinue(g, f)
  \/ \E g \in Runs, f \in Files : SettleWrapper(g, f)

Spec == Init /\ [][Next]_vars

\* What the event loop and the environment guarantee: a pending request
\* (manifest or resource) eventually returns or fails, a timer fires, the
\* promise of a handler settles, and a continuation that is ready runs.  The
\* caller's start(), resume(), stop() and abort are under no obligation.
Fairness ==
  /\ WF_vars(MetaOk \/ MetaFail)
  /\ WF_vars(FinishRun)
  /\ \A g \in Runs, f \in Files :
       /\ WF_vars(FetchOk(g, f) \/ FetchError(g, f))
       /\ WF_vars(RetryTimer(g, f))
       /\ WF_vars(CallbackDone(g, f))
       /\ WF_vars(BodyContinue(g, f))
       /\ WF_vars(SettleWrapper(g, f))

\* the controllers of the fair specification: the baseline, the baseline
\* with a caller-supplied signal, and options from which no base URL can be
\* resolved; no initial checkpoint
OptionsFair ==
  {Baseline,
   [Baseline EXCEPT !.signal = TRUE],
   [Baseline EXCEPT !.metaUrl = FALSE, !.metaData = TRUE, !.prefix = FALSE]}

InitFair ==
  /\ \E opts \in OptionsFair : Construct(opts, [f \in Files |-> ABSENT])
  /\ cq = NoQueue
  /\ ld = NoLoads

SpecFair == InitFair /\ [][Next]_vars /\ Fairness

\* ---------------------------------- a ConcurrencyQueue used directly (SpecQueue)
\* a caller's task body, started: it runs until the caller's promise settles
OpaqueBody == [t \in QueueTasks |-> [NoTask EXCEPT !.pc = "opaque"]]

ctlAll == <<ctlVars, qVars>>

\* the tasks a call of the queue started, in the order of the waiting list it
\* found: cand is that list, q0 and q1 the queue before and after the call
StartedBy(cand, q0, q1) ==
  SelectSeq2(cand, {t \in QueueTasks : /\ q0.task[t].pc \in {"none", "queued"}
                                       /\ q1.task[t].pc \notin {"none", "queued"}})

\* queue.add(task); cq.order lists the tasks in submission order, cq.started in
\* the order their bodies were started
CqAdd(t) ==
  /\ cq.q.task[t].pc = "none"
  /\ LET q1 == QueueAdd(cq.n, cq.q, t, OpaqueBody) IN
     cq' = [cq EXCEPT !.q = q1,
                      !.order = Append(@, t),
                      !.started = @ \o StartedBy(Append(cq.q.queue, t), cq.q, q1)]
  /\ UNCHANGED <<ctlAll, ld>>

\* the promise returned by a running task body settles (ok: resolves)
CqTaskSettles(t, ok) ==
  /\ cq.q.task[t].pc = "opaque"
  /\ cq' = [cq EXCEPT !.q.task[t].pc = IF ok THEN "bodyOk" ELSE "thrown"]
  /\ UNCHANGED <<ctlAll, ld>>

\* the wrapper of task t resumed after `await task()`
CqWrapper(t) ==
  /\ cq.q.task[t].pc \in {"bodyOk", "thrown"}
  /\ LET q1 == WrapperSettle(cq.n, cq.q, t, OpaqueBody) IN
     cq' = [cq EXCEPT !.q = q1,
                      !.started = @ \o StartedBy(cq.q.queue, cq.q, q1)]
  /\ UNCHANGED <<ctlAll, ld>>

InitQueue ==
  /\ Construct(Baseline, [f \in Files |-> ABSENT])
  /\ \E n \in 1..MaxQueueLimit : cq = [NoQueue EXCEPT !.n = n]
  /\ ld = NoLoads

NextQueue ==
  \/ \E t \in QueueTasks : CqAdd(t)
  \/ \E t \in QueueTasks, ok \in BOOLEAN : CqTaskSettles(t, ok)
  \/ \E t \in QueueTasks : CqWrapper(t)

SpecQueue == InitQueue /\ [][NextQueue]_vars

\* every admitted task eventually settles and the wrapper awaiting it then
\* resumes; the caller is under no obligation to add tasks
FairnessQueue ==
  \A t \in QueueTasks :
    /\ WF_vars(\E ok \in BOOLEAN : CqTaskSettles(t, ok))
    /\ WF_vars(CqWrapper(t))

SpecQueueFair == InitQueue /\ [][NextQueue]_vars /\ FairnessQueue

\* --------------------------------------- loadResource called directly (SpecLoad)
LdSet(f, t) ==
  /\ ld' = [ld EXCEPT !.t[f] = t]
  /\ UNCHANGED <<ctlAll, cq>>

\* a fetch of an aborted signal is rejected at once: its catch is pending
LdMicroPending(f) == ld.t[f].pc = "fetching" /\ ld.aborted
LdQuiescent == \A f \in Files : ~LdMicroPending(f)

\* loadResource(fileInfo, baseUrl, retryCount, retryDelay, callbacks, signal)
LdCall(f) ==
  /\ LdQuiescent
  /\ ld.t[f].pc = "none"
  /\ LdSet(f, LoadResourceCall(ld.retryCount, ld.aborted))

\* the caller aborts the signal
LdAbort ==
  /\ LdQuiescent
  /\ ~ld.aborted
  /\ ld' = [ld EXCEPT !.aborted = TRUE]
  /\ UNCHANGED <<ctlAll, cq>>

LdFetchOk(f) ==
  /\ LdQuiescent
  /\ ld.t[f].pc = "fetching"
  /\ LdSet(f, AfterFetchOk(ld.t[f]))

LdFetchError(f) ==
  /\ ld.t[f].pc = "fetching"
  /\ LdQuiescent \/ ld.aborted
  /\ LdSet(f, AfterFetchError(ld.t[f], ld.aborted))

LdRetryTimer(f) ==
  /\ LdQuiescent
  /\ ld.t[f].pc = "retryWait"
  /\ LdSet(f, LoopTop(ld.t[f], ld.aborted))

LdCallbackDone(f) ==
  /\ LdQuiescent
  /\ ld.t[f].pc \in {"onSuccess", "onEnd", "onError"}
  /\ LdSet(f, CASE ld.t[f].pc = "onSuccess" -> AfterOnSuccess(ld.t[f])
                [] ld.t[f].pc = "onEnd" -> AfterOnEnd(ld.t[f])
                [] OTHER -> AfterOnError(ld.t[f]))

\* the promise of callbacks.onSuccess / onEnd rejected (or the handler threw):
\* the await is inside the try block, so the catch block runs
LdCallbackFail(f) ==
  /\ LdQuiescent
  /\ ld.t[f].pc \in {"onSuccess", "onEnd"}
  /\ LdSet(f, AfterFetchError(ld.t[f], ld.aborted))

InitLoad ==
  /\ Construct(Baseline, [f \in Files |-> ABSENT])
  /\ cq = NoQueue
  /\ \E rc \in 0..MaxLoadRetry, ab \in BOOLEAN :
        ld = [NoLoads EXCEPT !.retryCount = rc, !.aborted = ab]

NextLoad ==
  \/ LdAbort
  \/ \E f \in Files : LdCall(f)
  \/ \E f \in Files : LdFetchOk(f)
  \/ \E f \in Files : LdFetchError(f)
  \/ \E f \in Files : LdRetryTimer(f)
  \/ \E f \in Files : LdCallbackDone(f)
  \/ \E f \in Files : LdCallbackFail(f)

SpecLoad == InitLoad /\ [][NextLoad]_vars

\* ------------- the streaming loadResource called directly (SpecStream)
\* top of the for loop: the abort check, then fetch(resourceUrl, {signal})
StreamLoopTop(s, ab) ==
  IF ab THEN [s EXCEPT !.pc = "thrown"]
  ELSE [s EXCEPT !.pc = "fetching", !.tries = @ + 1]

\* the outer catch block: abort check, retry wait, or onError (called, not
\* awaited) and the failure result
StreamCatch(s, ab, rc) ==
  IF ab THEN [s EXCEPT !.pc = "thrown"]
  ELSE IF s.tries - 1 < rc THEN [s EXCEPT !.pc = "retryWait"]
  ELSE [s EXCEPT !.pc = "retFail", !.nError = @ + 1]

\* top of the read loop: the abort check, then `await reader.read()`
StreamReadTop(s, ab, rc) ==
  IF ab THEN StreamCatch(s, ab, rc) ELSE [s EXCEPT !.pc = "reading"]

\* response.ok with a body and callbacks.onProgress: `let loaded = 0`
StreamFetchOk(s, ab, rc) == StreamReadTop([s EXCEPT !.loaded = 0], ab, rc)

\* reader.read() resolved with a chunk of n bytes: loaded += n, onProgress
\* with {loaded, total, percentage}, and the top of the read loop again
StreamChunk(s, n, ab, rc) ==
  LET l == s.loaded + n IN
  StreamReadTop([s EXCEPT !.loaded = l,
                          !.progress = [loaded |-> l, total |-> BodySize,
                                        percentage |-> RoundPercent(l, BodySize)],
                          !.nProgress = @ + 1],
                ab, rc)

\* reader.read() resolved with done: onSuccess and onEnd are called and the
\* success result returned
StreamDone(s) == [s EXCEPT !.pc = "retOk", !.nSuccess = @ + 1, !.nEnd = @ + 1]

StSet(t) ==
  /\ ld' = [ld EXCEPT !.s = t]
  /\ UNCHANGED <<ctlAll, cq>>

\* loadResource(fileInfo, baseUrl, retryCount, retryDelay, callbacks, signal)
\* with callbacks.onProgress
StCall ==
  /\ ld.s.pc = "none"
  /\ StSet(StreamLoopTop(ld.s, ld.aborted))

\* the caller aborts the signal
StAbort ==
  /\ ~ld.aborted
  /\ ld' = [ld EXCEPT !.aborted = TRUE]
  /\ UNCHANGED <<ctlAll, cq>>

\* fetch resolved with response.ok
StFetchOk ==
  /\ ld.s.pc = "fetching" /\ ~ld.aborted
  /\ StSet(StreamFetchOk(ld.s, ld.aborted, ld.retryCount))

\* fetch rejected, or resolved with !response.ok
StFetchError ==
  /\ ld.s.pc = "fetching"
  /\ StSet(StreamCatch(ld.s, ld.aborted, ld.retryCount))

\* a chunk of n bytes of the body arrived
StChunk(n) ==
  /\ ld.s.pc = "reading"
  /\ ld.s.loaded + n <= BodySize
  /\ StSet(StreamChunk(ld.s, n, ld.aborted, ld.retryCount))

\* the body ended
StDone ==
  /\ ld.s.pc = "reading"
  /\ ld.s.loaded = BodySize
  /\ StSet(StreamDone(ld.s))

\* reader.read() rejected (the connection broke, or the signal was aborted):
\* the inner catch releases the lock and rethrows to the outer catch
StReadError ==
  /\ ld.s.pc = "reading"
  /\ StSet(StreamCatch(ld.s, ld.aborted, ld.retryCount))

\* the retryDelay timer fired
StRetryTimer ==
  /\ ld.s.pc = "retryWait"
  /\ StSet(StreamLoopTop(ld.s, ld.aborted))

InitStream ==
  /\ Construct(Baseline, [f \in Files |-> ABSENT])
  /\ cq = NoQueue
  /\ \E rc \in 0..MaxLoadRetry : ld = [NoLoads EXCEPT !.retryCount = rc]

NextStream ==
  \/ StCall
  \/ StAbort
  \/ StFetchOk
  \/ StFetchError
  \/ \E n \in 1..MaxChunk : StChunk(n)
  \/ StDone
  \/ StReadError
  \/ StRetryTimer

SpecStream == InitStream /\ [][NextStream]_vars

\* =================================================================== claims

\* what a step that is not a public call, or a rejected call, leaves alone
AllButLastCall == <<options, resumeConfig, state, isRunning, currentProgress,
                    aborted, extAborted, pc, curRun, run, lastOnState, qVars, cq, ld>>

\* tasks of the directly used queue that are admitted and whose add() promise
\* is not settled yet
CqInFlight == {t \in QueueTasks : cq.q.task[t].pc \in {"opaque", "bodyOk", "thrown"}}

\* C1: for every limit N >= 1 and every sequence of add() calls and task
\* settlements, the tasks admitted and not yet settled never exceed N, and the
\* queue's running counter equals their number.
C1_RunningBounded ==
  /\ Cardinality(CqInFlight) <= cq.n
  /\ cq.q.running = Cardinality(CqInFlight)

\* C1 witness: a queue at its limit N >= 2 with a task waiting, after one task
\* rejected and one resolved
C1_Witness ==
  /\ cq.n >= 2
  /\ cq.q.running = cq.n
  /\ Len(cq.q.queue) > 0
  /\ \E t \in QueueTasks : cq.q.task[t].pc = "rejected"

\* C2: in every TaskProgress snapshot delivered by a run (onTaskProgress, or
\* the progress of an onState notification), success + failure = completed and
\* completed <= total.
C2_SnapshotConsistent ==
  currentProgress # NoProgress =>
    /\ currentProgress.success + currentProgress.failure = currentProgress.completed
    /\ currentProgress.completed <= currentProgress.total

\* C2 witness: a snapshot that counts a success and a failure
C2_Witness ==
  /\ currentProgress # NoProgress
  /\ currentProgress.success > 0
  /\ currentProgress.failure > 0

\* C3: a loadResource call whose every attempt fails and whose signal is never
\* raised issues exactly retryCount + 1 attempts, then calls onError exactly
\* once, after the last attempt only, and returns success = false.
C3_RetryBound ==
  \A f \in Files :
    LET t == ld.t[f] IN
    /\ t.tries <= ld.retryCount + 1
    /\ t.nError <= 1
    /\ t.nError = 1 => t.tries = ld.retryCount + 1 /\ t.pc \in {"onError", "retFail"}
    /\ t.pc = "retryWait" => t.tries <= ld.retryCount
    /\ t.pc \in {"onError", "retFail"} => t.nError = 1 /\ t.nEnd <= t.nSuccess
    /\ t.pc = "retFail" /\ t.nSuccess = 0 => t.tries = ld.retryCount + 1 /\ t.nEnd = 0
    /\ t.pc = "thrown" => ld.aborted

\* C3 witness: a call with the largest retryCount returned failure, the signal
\* never raised
C3_Witness ==
  /\ ~ld.aborted
  /\ ld.retryCount = MaxLoadRetry
  /\ \E f \in Files : /\ ld.t[f].pc = "retFail" /\ ld.t[f].tries = MaxLoadRetry + 1
                       /\ ld.t[f].nSuccess = 0

\* C4: in a controller run configured with retryCount = r (r = 0 included),
\* each resource whose every attempt fails is attempted exactly r + 1 times.
C4_AttemptsFollowRetryCount ==
  \A g \in Runs, f \in Files :
    /\ task[g][f].tries <= options.retryCount + 1
    /\ task[g][f].pc \in {"onError", "retFail"} =>
         task[g][f].tries = options.retryCount + 1

\* C5: a run during which stop() was accepted never ends in Completed.
C5_StoppedRunNeverCompletes ==
  \A g \in Runs : g \in aborted => run[g].endState # COMPLETED

\* C6: once stop() has been accepted in a run, no resource of that run starts
\* a new network attempt, whoever owns the cancellation signal.
C6_NoAttemptAfterStop ==
  [][\A g \in Runs, f \in Files :
       g \in aborted =>
         ~(task'[g][f].pc = "fetching" /\ task'[g][f].tries > task[g][f].tries)]_vars

\* C7: in a run begun by resume(), tasks (and so network attempts) exist only
\* for resources of the filtered set whose entry was not done when the run read
\* the checkpoint; a resource marked done gets no attempt in that run.
C7_ResumeSkipsDone ==
  \A g \in Runs :
    run[g].kind = "resume" =>
      \A f \in Files :
        /\ task[g][f].pc # "none" => f \in options.fileFilter /\ f \notin run[g].doneBefore
        /\ f \in run[g].doneBefore => task[g][f] = NoTask

\* C7 witness: a resumed run fetching one resource while another, marked done
\* before it, has no task
C7_Witness ==
  \E g \in Runs, f1, f2 \in Files :
    /\ run[g].kind = "resume"
    /\ run[g].from = STOPPED
    /\ g > 1
    /\ task[g][f1].pc = "fetching"
    /\ f2 \in run[g].doneBefore /\ f2 \in options.fileFilter

C9_StartWhileRunningRejected ==
  [][(lastCall'.op = "start" /\ state = RUNNING) =>
       (lastCall'.res = "rejected" /\ UNCHANGED AllButLastCall)]_vars

\* C9 witness: start() was just rejected while a run with tasks is active
C9_Witness ==
  /\ lastCall = [op |-> "start", res |-> "rejected"]
  /\ state = RUNNING /\ isRunning /\ pc = "awaitAll"

Prepared(g) == run[g].base # "none"

\* the entries of the filtered list marked done when run g read the checkpoint
SkippedBy(g) == run[g].doneBefore \cap Range(run[g].files)

C12_StopNoOpUnlessRunning ==
  [][(lastCall'.op = "stop" /\ state # RUNNING) =>
       (lastCall'.res = "returned" /\ UNCHANGED AllButLastCall)]_vars

\* C12 witness: stop() just returned on a Completed controller that has a
\* progress snapshot
C12_Witness ==
  /\ lastCall = [op |-> "stop", res |-> "returned"]
  /\ state = COMPLETED
  /\ currentProgress # NoProgress

\* C13: every settlement with a result writes the resource's checkpoint entry
\* (success -> done, failure -> pending), and the handlers of the snapshot that
\* counts the settlement already read the entry so written.
C13_CheckpointBeforeSnapshot ==
  [][\A g \in Runs, f \in Files :
       (task[g][f].pc \in {"retOk", "retFail"} /\ task'[g][f].pc = "bodyOk") =>
         LET outcome == IF task[g][f].pc = "retOk" THEN DONE ELSE PENDING IN
         /\ resumeConfig'[f] = outcome
         /\ run'[g].seen = outcome
         /\ run'[g].completed = run[g].completed + 1
         /\ currentProgress'.completed = run'[g].completed
         /\ task[g][f].pc = "retFail" => task[g][f].tries = task[g][f].retryCount + 1]_vars

\* C13 witness: a failure was just recorded as pending over an entry that a
\* success of another resource had marked done
C13_Witness ==
  \E g \in Runs, f1, f2 \in Files :
    /\ task[g][f1].pc = "bodyOk" /\ run[g].seen = PENDING /\ resumeConfig[f1] = PENDING
    /\ f2 # f1 /\ resumeConfig[f2] = DONE /\ f2 \in Range(run[g].backlog)

\* C14: a task that observes the cancellation ends by throwing: the step
\* counts nothing, emits no snapshot and writes no checkpoint entry; the
\* counters of a run count exactly its skipped entries and the tasks that
\* returned a result.
C14_AbortedNotCounted ==
  /\ [][\A g \in Runs, f \in Files :
          (task[g][f].pc = "fetching" /\ SignalAborted(g) /\ task'[g][f] # task[g][f])
            => /\ task'[g][f].pc = "thrown"
               /\ UNCHANGED <<resumeConfig, currentProgress, run, lastOnState>>]_vars
  /\ [][\A g \in Runs, f \in Files :
          (task[g][f].pc # "thrown" /\ task'[g][f].pc = "thrown" /\ pc # "fetchMeta"
           /\ lastCall'.op = "none")
            => UNCHANGED <<resumeConfig, currentProgress, run, lastOnState>>]_vars
  /\ [](\A g \in Runs :
          Prepared(g) =>
            /\ run[g].completed = Cardinality(SkippedBy(g)) + Cardinality(SettledTasks(g))
            /\ run[g].success + run[g].failure = run[g].completed)

\* C14 witness: a stopped run with one resource counted and one aborted, whose
\* entry is still absent
C14_Witness ==
  \E g \in Runs, f1, f2 \in Files :
    /\ g \in aborted /\ ~options.signal
    /\ task[g][f1].pc = "resolved" /\ task[g][f2].pc = "rejected"
    /\ resumeConfig[f2] = ABSENT
    /\ run[g].completed = 1 /\ run[g].endState = STOPPED

\* a task of run g that has started and can still act: it waits for a
\* response, a timer or a handler, or its result is not yet recorded.  A task
\* that has thrown, or whose fetch the aborted signal has already rejected,
\* only has its bookkeeping left and is not counted.
InFlight(g, f) ==
  /\ task[g][f].pc \in {"fetching", "retryWait", "onSuccess", "onEnd",
                        "onError", "retOk", "retFail", "bodyOk"}
  /\ ~(task[g][f].pc = "fetching" /\ SignalAborted(g))

\* a task of run g that is queued or in flight
Undrained(g, f) == task[g][f].pc = "queued" \/ InFlight(g, f)

\* C15: a run is finalized (end-of-run emitted) only after full drain: no task
\* of it is queued or running then, and after the end-of-run notification the
\* run records no settlement (no checkpoint write, no snapshot).
C15_FinalizeAfterDrain ==
  /\ [](\A g \in Runs : run[g].ended > 0 => \A f \in Files : ~Undrained(g, f))
  /\ [][\A g \in Runs :
          run[g].ended > 0 => /\ run'[g].completed = run[g].completed
                              /\ run'[g].seen = run[g].seen]_vars

\* C16: for one resource in one loadResource call the success, completion and
\* error notifications each fire at most once over the whole retry sequence,
\* and a call that returns success fired success once, then completion once.
C16_NotificationsOnce ==
  \A f \in Files :
    LET t == ld.t[f] IN
    /\ t.nSuccess <= 1 /\ t.nEnd <= 1 /\ t.nError <= 1
    /\ t.nEnd <= t.nSuccess
    /\ t.pc = "retOk" => t.nSuccess = 1 /\ t.nEnd = 1 /\ t.nError = 0

\* C17: in a run in which no cancellation is raised, a resource that exhausts
\* its retries makes no task throw; every backlog resource is attempted and
\* settles, and the run ends Completed with the call resolved.
C17_FailureContained ==
  \A g \in Runs :
    (Prepared(g) /\ g \notin aborted /\ ~extAborted) =>
      /\ \A f \in Files : task[g][f].pc \notin {"thrown", "rejected"}
      /\ run[g].result # "pending" =>
           /\ run[g].endState = COMPLETED /\ run[g].result = "resolved"
           /\ run[g].ended = 1
           /\ \A f \in Range(run[g].backlog) : task[g][f].pc = "resolved"
           /\ run[g].completed = run[g].total

\* C17 witness: an unstopped run ended Completed, its call resolved, with one
\* resource failed for good and its sibling fetched
C17_Witness ==
  \E g \in Runs :
    /\ g \notin aborted /\ ~extAborted
    /\ run[g].endState = COMPLETED /\ run[g].result = "resolved"
    /\ Len(run[g].backlog) = NumFiles
    /\ run[g].failure = 1 /\ run[g].success = 1
    /\ resumeConfig[1] = PENDING /\ resumeConfig[NumFiles] = DONE

\* C18: a manifest fetch failure or a configuration error always rejects the
\* call that began the run, whatever stop() did meanwhile, and the failing
\* step itself does not move the controller to Stopped or Completed.
C18_RunErrorsSurface ==
  /\ [](\A g \in Runs :
          (run[g].endState = "error" /\ ~Prepared(g)) => run[g].result = "rejected")
  /\ [][\A g \in Runs :
          (run[g].endState # "error" /\ run'[g].endState = "error") =>
            (state' \in {STOPPED, COMPLETED} => state' = state)]_vars

\* C19: at most one run is active at a time, and each resource has at most one
\* task in flight (started and not settled) over all runs.
C19_OneTaskPerResource ==
  /\ Cardinality({g \in Runs : run[g].result = "pending"}) <= 1
  /\ \A f \in Files : Cardinality({g \in Runs : InFlight(g, f)}) <= 1

\* C20: when stop() was accepted after k of the n backlog resources had
\* settled (0 < k < n), the run ends Stopped with exactly those k outcomes
\* recorded, resume() is then accepted, and a resumed run schedules exactly
\* the other n - k resources.
C20_StopAfterK ==
  \A g \in Runs :
    LET k == Cardinality(run[g].stopSettled)
        n == Len(run[g].backlog)
    IN (g \in aborted /\ 0 < k /\ k < n /\ run[g].result # "pending") =>
         /\ run[g].endState = STOPPED
         /\ run[g].completed = Cardinality(SkippedBy(g)) + k
         /\ (g = curRun /\ pc = "none") => (state = STOPPED /\ canResume)
         /\ (g + 1 \in Runs /\ run[g + 1].kind = "resume" /\ Prepared(g + 1)) =>
              Range(run[g + 1].backlog) = Range(run[g].backlog) \ run[g].stopSettled

\* C26: a ConcurrencyQueue starts its tasks in submission order: at every
\* moment the tasks started so far are the first ones submitted, in that
\* order, whatever the order in which running tasks settle.
C26_FifoAdmission ==
  /\ Len(cq.started) <= Len(cq.order)
  /\ cq.started = SubSeq(cq.order, 1, Len(cq.started))

\* C26 witness: tasks submitted in an order other than their numbering have all
\* started, the last one after a later-submitted running task settled (with a
\* rejection) before an earlier one
C26_Witness ==
  /\ cq.n = 2
  /\ Len(cq.started) = NumQueueTasks
  /\ cq.order[1] # 1
  /\ cq.q.task[cq.order[1]].pc = "opaque"
  /\ cq.q.task[cq.order[2]].pc = "rejected"

\* C30: in loadResource, when the signal is raised as an attempt is about to
\* begin (at the call or after a retry wait) or when an attempt has failed, the
\* call ends by throwing: no request is issued, no retry is waited for and no
\* notification is invoked.
C30_AbortedEndsCall ==
  [][\A f \in Files :
       (/\ ld.aborted
        /\ ld.t[f].pc \in {"none", "fetching", "retryWait"}
        /\ ld.t'[f] # ld.t[f])
       => /\ ld.t'[f].pc = "thrown"
          /\ ld.t'[f].tries = ld.t[f].tries
          /\ ld.t'[f].nSuccess = ld.t[f].nSuccess
          /\ ld.t'[f].nEnd = ld.t[f].nEnd
          /\ ld.t'[f].nError = ld.t[f].nError]_vars

\* C30 witness: a call whose signal was raised during its retry wait has thrown
\* after one attempt, with no notification
C30_Witness ==
  \E f \in Files :
    /\ ld.aborted /\ ld.retryCount >= 1
    /\ ld.t[f].pc = "thrown" /\ ld.t[f].tries = 1
    /\ ld.t[f].nSuccess = 0 /\ ld.t[f].nError = 0

\* run g was not cancelled: neither stop() nor the caller's signal
NotCancelled(g) == g \notin aborted /\ ~SignalAborted(g)

\* C21: when a run that started from an empty checkpoint ends as Completed
\* without cancellation, the last snapshot has completed = total, percentage
\* 100, success and failure equal to the numbers of resources that succeeded
\* and that exhausted their retries, and the checkpoint marks exactly the
\* succeeded resources done and exactly the failed ones pending.
C21_FinalSnapshotAndCheckpoint ==
  [][\A g \in Runs :
       (/\ run[g].endState = "none" /\ run'[g].endState = COMPLETED
        /\ run'[g].emptyBefore /\ NotCancelled(g))
       => /\ currentProgress' = Progress(run'[g].total, run'[g].total,
                                         Cardinality(run'[g].succeeded),
                                         Cardinality(run'[g].failed))
          /\ currentProgress'.percentage = 100
          /\ \A f \in Files : /\ resumeConfig'[f] = DONE <=> f \in run'[g].succeeded
                              /\ resumeConfig'[f] = PENDING <=> f \in run'[g].failed]_vars

\* the step delivers a progress snapshot: a task body resumed after its
\* loadResource call and called updateTaskProgress
SnapshotStep ==
  \E g \in Runs, f \in Files :
    task[g][f].pc \in {"retOk", "retFail"} /\ task'[g][f].pc = "bodyOk"

\* C22: within one run every settlement delivers one progress snapshot whose
\* completed count is exactly one more than that of the snapshot delivered
\* before it, so completed and percentage never decrease along the
\* notifications of the run.
C22_SnapshotsStepByOne ==
  [][(/\ pc = "awaitAll" /\ run[curRun].completed > 0
      /\ currentProgress.completed = run[curRun].completed
      /\ SnapshotStep)
     => /\ currentProgress'.completed = currentProgress.completed + 1
        /\ currentProgress'.percentage >= currentProgress.percentage]_vars

\* the files of the manifest that options.fileFilter accepts
Accepted == Range(ManifestFiles) \cap options.fileFilter

\* C23: the total of every progress snapshot of a run is the number of manifest
\* files the inclusion predicate accepts (all of them without a predicate) and
\* never changes during the run; a file the predicate rejects is never
\* submitted, fetched or counted.
C23_TotalIsFilteredCount ==
  /\ [](\A g \in Runs :
          /\ Prepared(g) => /\ run[g].total = Cardinality(Accepted)
                            /\ Range(run[g].files) = Accepted
          /\ \A f \in Files \ Accepted :
               /\ task[g][f].pc = "none"
               /\ f \notin run[g].succeeded \cup run[g].failed
               /\ f \notin Range(queue[g]))
  /\ [](currentProgress # NoProgress
          => currentProgress.total = Cardinality(Accepted))
  /\ [][\A g \in Runs : Prepared(g) => run'[g].total = run[g].total]_vars

\* C23 witness: with a predicate that rejects the last file a run has completed
\* with total 1 and the rejected file still has no checkpoint entry
C23_Witness ==
  /\ Accepted # Range(ManifestFiles)
  /\ run[1].endState = COMPLETED
  /\ currentProgress = Progress(1, 1, 1, 0)
  /\ resumeConfig[NumFiles] = ABSENT

C25_BaseUrlPrecedence ==
  \A g \in Runs :
    /\ Prepared(g) =>
         /\ options.baseUrl => run[g].base = "baseUrl"
         /\ ~options.baseUrl /\ options.metaUrl => run[g].base = "metaUrl"
         /\ ~options.baseUrl /\ ~options.metaUrl
              => options.prefix /\ run[g].base = "prefix"
    /\ ~options.baseUrl /\ ~options.metaUrl /\ ~options.prefix
         => /\ ~Prepared(g)
            /\ \A f \in Files : task[g][f] = NoTask
            /\ run[g].kind # "none"
                 => run[g].endState = "error" /\ run[g].result = "rejected"

\* C25 witness: with baseUrl, metaUrl and a manifest prefix all given, a
\* resource of a run that uses the explicit baseUrl has been loaded
C25_Witness ==
  /\ options.baseUrl /\ options.metaUrl /\ options.prefix
  /\ run[1].base = "baseUrl"
  /\ run[1].succeeded # {}

\* C27: every change of the controller's state is reported by onState, so
\* when start(), stop() or resume() has returned, the state of the most recent
\* onState notification is the one getState() returns.
C27_OnStateTracksState ==
  lastCall.op \in {"start", "stop", "resume"} => lastOnState.state = state

\* run g has been cancelled: stop() was accepted while it was the current run,
\* or the signal its requests use is aborted
Cancelled(g) == g \in aborted \/ SignalAborted(g)

\* C29: a task that is still waiting in the queue when cancellation is
\* signaled is never started by the queue.
C29_QueuedNeverAdmitted ==
  [][\A g \in Runs, f \in Files :
       task[g][f].pc = "queued" /\ Cancelled(g)
       => task'[g][f].pc = "queued"]_vars

\* run g has ended as Completed or Stopped and its end-of-run notification was
\* emitted once
EndedOnce(g) == run[g].endState \in {COMPLETED, STOPPED} /\ run[g].ended = 1

CqSettled(t) == cq.q.task[t].pc \in {"resolved", "rejected"}

\* C32: every task a ConcurrencyQueue admitted releases its slot exactly once
\* when it settles, resolving or rejecting; a rejection rejects only the add()
\* promise of that task, and the next waiting task is admitted in the same
\* step that releases the slot.
C32_SlotReleasedOnSettle ==
  [][\A t \in QueueTasks :
       (cq.q.task[t].pc \in {"bodyOk", "thrown"} /\ CqSettled(t)')
       => /\ cq.q.task'[t].pc = IF cq.q.task[t].pc = "bodyOk" THEN "resolved" ELSE "rejected"
          /\ IF cq.q.queue = <<>>
             THEN /\ cq.q.running' = cq.q.running - 1
                  /\ \A u \in QueueTasks \ {t} : cq.q.task'[u] = cq.q.task[u]
             ELSE /\ cq.q.running' = cq.q.running
                  /\ cq.q.queue' = Tail(cq.q.queue)
                  /\ cq.q.task'[Head(cq.q.queue)].pc = "opaque"
                  /\ \A u \in QueueTasks \ {t, Head(cq.q.queue)} :
                       cq.q.task'[u] = cq.q.task[u]]_vars

\* C32 witness: with limit 1 the first task rejected, the second one was
\* admitted at once and a third one is still waiting
C32_Witness ==
  /\ cq.n = 1
  /\ Len(cq.order) >= 3
  /\ cq.q.task[cq.order[1]].pc = "rejected"
  /\ cq.q.task[cq.order[2]].pc = "opaque"
  /\ cq.q.queue = <<cq.order[3]>>

\* C33: with N >= 1 and every admitted task settling, every task submitted
\* to a ConcurrencyQueue is eventually admitted, exactly once, and its add()
\* promise eventually settles; once all submitted tasks have settled the queue
\* is empty and the running counter is 0.
C33_EveryTaskSettles ==
  /\ \A t \in QueueTasks : cq.q.task[t].pc # "none" ~> CqSettled(t)
  /\ [](\A i, j \in 1..Len(cq.started) : cq.started[i] = cq.started[j] => i = j)
  /\ []((\A t \in Range(cq.order) : CqSettled(t))
          => /\ cq.q.queue = <<>> /\ cq.q.running = 0
             /\ Range(cq.started) = Range(cq.order))

\* C33 witness: every task was submitted to a queue of limit 1 and all have
\* settled, some by rejecting
C33_Witness ==
  /\ cq.n = 1
  /\ Len(cq.order) = NumQueueTasks
  /\ \A t \in QueueTasks : CqSettled(t)
  /\ \E t \in QueueTasks : cq.q.task[t].pc = "rejected"
  /\ cq.q.running = 0

\* C34: a ConcurrencyQueue is work-conserving: after every add() call and
\* every processed settlement, if a task is waiting then exactly N tasks are
\* running.
C34_WorkConserving ==
  Len(cq.q.queue) > 0 => cq.q.running = cq.n /\ Cardinality(CqInFlight) = cq.n

\* C34 witness: a slot was released by a settlement and taken again at once
\* while another task keeps waiting, with limit 2
C34_Witness ==
  /\ cq.n = 2
  /\ Len(cq.q.queue) = 1
  /\ cq.q.running = 2
  /\ \E t \in QueueTasks : cq.q.task[t].pc = "resolved"

\* C31: the loaded-byte counts of one resource's chunk-progress notifications
\* never decrease over the whole retry sequence, also when an attempt fails
\* in the middle of the body and the resource is fetched again.
C31_LoadedMonotonic ==
  [][(ld.s.nProgress > 0 /\ ld.s.nProgress' > ld.s.nProgress)
     => ld.s.progress'.loaded >= ld.s.progress.loaded]_vars

\* the changes of state the specification lists
ListedTransitions ==
  {<<IDLE, RUNNING>>, <<RUNNING, COMPLETED>>, <<RUNNING, STOPPED>>,
   <<STOPPED, RUNNING>>, <<COMPLETED, RUNNING>>}

\* the step is a start() or resume() call that began a run: the state passed
\* through Running (updateState(RUNNING)) before the call reached its first
\* await or its end
ViaRunning == lastCall'.op \in {"start", "resume"} /\ lastCall'.res = "run"

\* C35: the state changes only along Idle->Running, Running->Completed,
\* Running->Stopped, Stopped->Running and Completed->Running, and never
\* returns to Idle once a run has begun.  (The Idle that start() assigns just
\* before a run begins is not counted: nothing can observe it.)
C35_ListedTransitionsOnly ==
  [][state' # state =>
       /\ state' # IDLE
       /\ IF ViaRunning
          THEN /\ <<state, RUNNING>> \in ListedTransitions
               /\ state' = RUNNING \/ <<RUNNING, state'>> \in ListedTransitions
          ELSE <<state, state'>> \in ListedTransitions]_vars

\* C36: the state is Running exactly while a run is active: never Running
\* when no run is in progress, never another state while executeLoad is still
\* awaiting its tasks.
C36_RunningIffActive ==
  state = RUNNING <=> isRunning

\* C37: every call to start() or resume() either rejects or carries out a run
\* that ends in Completed or Stopped with an end-of-run notification; no call
\* returns normally without having started a run.
C37_CallRejectsOrRuns ==
  /\ lastCall.op \in {"start", "resume"} => lastCall.res \in {"rejected", "run"}
  /\ \A g \in Runs : run[g].result = "resolved" => EndedOnce(g)

\* C38: once a resource's checkpoint entry is marked done it is never changed
\* back to pending and never removed.
C38_DoneStaysDone ==
  [][\A f \in Files : resumeConfig[f] = DONE => resumeConfig'[f] = DONE]_vars

\* C39: a newly constructed controller is Idle when the supplied checkpoint
\* has no entry marked done and Stopped when it has one; the constructor sends
\* exactly one onState notification, with isRunning false and totalCount 0, and
\* starts no network activity.
C39_Construction ==
  lastCall.op = "new" =>
    /\ (\A f \in Files : resumeConfig[f] # DONE) => state = IDLE
    /\ (\E f \in Files : resumeConfig[f] = DONE) => state = STOPPED
    /\ Len(ConstructorOnState(resumeConfig)) = 1
    /\ ConstructorOnState(resumeConfig)[1].state = state
    /\ ~ConstructorOnState(resumeConfig)[1].isRunning
    /\ ConstructorOnState(resumeConfig)[1].totalCount = 0
    /\ lastOnState = [state |-> state, isRunning |-> FALSE]
    /\ ~isRunning /\ pc = "none" /\ curRun = 0
    /\ \A g \in Runs, f \in Files : task[g][f] = NoTask

\* C39 witness: a controller just constructed with a checkpoint whose only
\* entry is marked done is Stopped
C39_Witness ==
  /\ lastCall.op = "new"
  /\ resumeConfig[1] = DONE /\ resumeConfig[NumFiles] = ABSENT
  /\ state = STOPPED /\ lastOnState.state = STOPPED
====
